---------------------------- MODULE Spec2Model ----------------------------
(***************************************************************************)
(* Model of src/backend/booking/src/notify-booking/notify.py: the Lambda   *)
(* entrypoint lambda_handler and notify_booking, which publishes one       *)
(* booking notification to an SNS topic.                                   *)
(*                                                                         *)
(* One Lambda container serves invocations one after another.  Each        *)
(* invocation walks the handler's code: extraction (lines 112-115),        *)
(* validation (117-118), the call of notify_booking (120-122), its subject *)
(* and status (50-54), the publish call (60-67) with every outcome the     *)
(* call can have, and the return or raise that ends the invocation.        *)
(* The X-Ray spans (lines 57-58, 70-71, 78) only record data and are not   *)
(* modelled.                                                               *)
(***************************************************************************)
EXTENDS Integers, Sequences, FiniteSets, TLC

VARIABLES
    booking_sns_topic,  \* module global, read once from BOOKING_TOPIC (line 14)
    pc,                 \* position of the current invocation in the code
    event,              \* lambda_handler's event argument
    customer_id,        \* lambda_handler local (line 112)
    price,              \* lambda_handler local (line 113)
    booking_reference,  \* lambda_handler local (line 115)
    payload,            \* lambda_handler local (line 121), notify_booking argument
    subject,            \* notify_booking local (line 53)
    booking_status,     \* notify_booking local (line 54)
    message_id,         \* notify_booking local (line 69)
    ret,                \* notify_booking's return value (line 73)
    exc,                \* the exception in flight: its type and message
    outcome,            \* how the invocation ended, as its caller sees it
    entered,            \* notify_booking was called in this invocation
    requests,           \* publish calls made in this invocation, in order
    errors,             \* exceptions those calls raised
    sent,               \* messages the topic accepted from those calls
    last,               \* the previous invocation: <<>> or <<its record>>
    invocations         \* invocations this container has started

vars == <<booking_sns_topic, pc, event, customer_id, price, booking_reference,
          payload, subject, booking_status, message_id, ret, exc, outcome,
          entered, requests, errors, sent, last, invocations>>

locals == <<customer_id, price, booking_reference, payload, subject,
            booking_status, message_id, ret, exc>>

(***************************************************************************)
(* Bounds and input sets.                                                  *)
(***************************************************************************)
MaxInvocations == 3

Topics == {"arn:aws:sns:eu-west-1:123456789012:booking"}

MessageIds == {"abc-123", "msg-1"}

ErrorMessages == {"Topic not found", "Invalid parameter: Subject"}

(***************************************************************************)
(* Python values.  Every value is a record of the same shape so that any   *)
(* two can be compared: t is the Python type, b the value of a bool, s the *)
(* value of a str, d the mapping of a dict.                                *)
(***************************************************************************)
EmptyDict == [k \in {} |-> 0]

PyNone == [t |-> "NoneType", b |-> FALSE, s |-> "", d |-> EmptyDict]

PyBool(b) == [t |-> "bool", b |-> b, s |-> "", d |-> EmptyDict]

PyStr(s) == [t |-> "str", b |-> FALSE, s |-> s, d |-> EmptyDict]

PyDict(d) == [t |-> "dict", b |-> FALSE, s |-> "", d |-> d]

\* A local variable that has not been assigned yet.
Unbound == [t |-> "unbound", b |-> FALSE, s |-> "", d |-> EmptyDict]

\* Python truth value testing, as used by `not x` and `x if c else y`.
Truthy(v) ==
    CASE v.t = "NoneType" -> FALSE
      [] v.t = "bool"     -> v.b
      [] v.t = "str"      -> v.s # ""
      [] v.t = "dict"     -> DOMAIN v.d # {}

\* str(v), as an f-string replacement field renders it.
Str(v) ==
    CASE v.t = "NoneType" -> "None"
      [] v.t = "bool"     -> IF v.b THEN "True" ELSE "False"
      [] v.t = "str"      -> v.s

\* json.dumps of a scalar (strings here need no escaping).
JsonValue(v) ==
    CASE v.t = "NoneType" -> "null"
      [] v.t = "bool"     -> IF v.b THEN "true" ELSE "false"
      [] v.t = "str"      -> "\"" \o v.s \o "\""

\* json.dumps(payload) with the default separators.
JsonDumps(p) ==
    "{\"customerId\": " \o JsonValue(p.customerId)
        \o ", \"price\": " \o JsonValue(p.price) \o "}"

\* dict.get(k, default)
Get(d, k, default) == IF k \in DOMAIN d THEN d[k] ELSE default

(***************************************************************************)
(* Events.  A key may be missing from the event; payment, when present,    *)
(* is a mapping that may or may not hold a price.                          *)
(***************************************************************************)
Missing == [t |-> "missing", b |-> FALSE, s |-> "", d |-> EmptyDict]

\* The dict holding the entries of f that are not Missing.
MkDict(f) == [k \in {x \in DOMAIN f : f[x] # Missing} |-> f[k]]

CustomerIds == {Missing, PyNone, PyStr(""), PyStr("cust-1")}

Prices == {Missing, PyNone, PyStr("100")}

Payments ==
    {Missing} \cup
    {PyDict(MkDict([price |-> p])) : p \in Prices}

BookingReferences ==
    {Missing, PyNone, PyBool(FALSE), PyStr(""), PyStr("BK-9"),
     PyStr("XYZ123")}

MkEvent(c, p, r) ==
    MkDict([customerId |-> c, payment |-> p, bookingReference |-> r])

Events ==
    {MkEvent(c, p, r) : c \in CustomerIds, p \in Payments,
                        r \in BookingReferences}

(***************************************************************************)
(* Outcomes of an invocation, exceptions, and unassigned locals.           *)
(***************************************************************************)
NoOutcome == [kind |-> "none", type |-> "", value |-> ""]

Returned(type, value) == [kind |-> "return", type |-> type, value |-> value]

Raised(type, value) == [kind |-> "raise", type |-> type, value |-> value]

NoException == [type |-> "", message |-> ""]

Exception(type, message) == [type |-> type, message |-> message]

NoResult == [notificationId |-> ""]

NoPayload == [customerId |-> Unbound, price |-> Unbound]

Init ==
    /\ booking_sns_topic \in Topics
    /\ pc = "idle"
    /\ event = EmptyDict
    /\ customer_id = Unbound
    /\ price = Unbound
    /\ booking_reference = Unbound
    /\ payload = NoPayload
    /\ subject = ""
    /\ booking_status = ""
    /\ message_id = ""
    /\ ret = NoResult
    /\ exc = NoException
    /\ outcome = NoOutcome
    /\ entered = FALSE
    /\ requests = <<>>
    /\ errors = <<>>
    /\ sent = <<>>
    /\ last = <<>>
    /\ invocations = 0

(***************************************************************************)
(* The runtime calls lambda_handler(event, context).                       *)
(***************************************************************************)
Invoke(e) ==
    /\ pc = "idle"
    /\ invocations < MaxInvocations
    /\ invocations' = invocations + 1
    /\ event' = e
    /\ pc' = "extract"
    /\ UNCHANGED <<booking_sns_topic, locals, outcome, entered, requests,
                   errors, sent, last>>

(***************************************************************************)
(* Lines 112-115.  event.get("payment", False) is False when the key is    *)
(* missing, and False has no .get: line 113 raises AttributeError, which   *)
(* nothing catches.                                                        *)
(***************************************************************************)
Extract ==
    /\ pc = "extract"
    /\ customer_id' = Get(event, "customerId", PyBool(FALSE))
    /\ LET payment == Get(event, "payment", PyBool(FALSE)) IN
       IF payment.t # "dict"
       THEN /\ outcome' = Raised("AttributeError",
                                 "'bool' object has no attribute 'get'")
            /\ pc' = "done"
            /\ UNCHANGED <<price, booking_reference>>
       ELSE /\ price' = Get(payment.d, "price", PyBool(FALSE))
            /\ booking_reference' =
                   Get(event, "bookingReference", PyBool(FALSE))
            /\ pc' = "validate"
            /\ UNCHANGED outcome
    /\ UNCHANGED <<booking_sns_topic, event, payload, subject, booking_status,
                   message_id, ret, exc, entered, requests, errors, sent,
                   last, invocations>>

(***************************************************************************)
(* Lines 117-122: the check, then the payload and the call.                *)
(***************************************************************************)
\* Mutant: rejects the event as soon as either field is false-like.
Invalid_Either(c, p) == ~Truthy(c) \/ ~Truthy(p)

Invalid(c, p) == ~Truthy(c) /\ ~Truthy(p)

\* Mutant: the check comes after the call of notify_booking and its publish.
Validate_AfterNotify ==
    /\ pc = "validate"
    /\ payload' = [customerId |-> customer_id, price |-> price]
    /\ entered' = TRUE
    /\ IF ~Truthy(customer_id) /\ ~Truthy(price)
       THEN /\ requests' =
                   Append(requests,
                          [TopicArn |-> booking_sns_topic,
                           Message |-> "",
                           Subject |-> "",
                           Status |-> ""])
            /\ outcome' = Raised("ValueError", "Invalid customer and price")
            /\ pc' = "done"
       ELSE /\ pc' = "notify"
            /\ UNCHANGED <<outcome, requests>>
    /\ UNCHANGED <<booking_sns_topic, event, customer_id, price,
                   booking_reference, subject, booking_status, message_id,
                   ret, exc, errors, sent, last, invocations>>

Validate ==
    /\ pc = "validate"
    /\ IF Invalid(customer_id, price)
       THEN /\ outcome' = Raised("ValueError", "Invalid customer and price")
            /\ pc' = "done"
            /\ UNCHANGED <<payload, entered>>
       ELSE /\ payload' = [customerId |-> customer_id, price |-> price]
            /\ entered' = TRUE
            /\ pc' = "notify"
            /\ UNCHANGED outcome
    /\ UNCHANGED <<booking_sns_topic, event, customer_id, price,
                   booking_reference, subject, booking_status, message_id,
                   ret, exc, requests, errors, sent, last, invocations>>

(***************************************************************************)
(* Lines 50-54 of notify_booking.                                          *)
(***************************************************************************)
SuccessfulSubject(ref) == "Booking confirmation for " \o Str(ref)

\* Mutant: the unsuccessful subject leaves the reference out.
UnsuccessfulSubject_NoReference(ref) == "Unable to process booking for "

UnsuccessfulSubject(ref) == "Unable to process booking for " \o Str(ref)

\* Mutant: the two subjects are swapped.
Subject_Swapped(ref) ==
    IF Truthy(ref) THEN UnsuccessfulSubject(ref) ELSE SuccessfulSubject(ref)

Subject(ref) ==
    IF Truthy(ref) THEN SuccessfulSubject(ref) ELSE UnsuccessfulSubject(ref)

BookingStatus(ref) == IF Truthy(ref) THEN "confirmed" ELSE "cancelled"

Format ==
    /\ pc = "notify"
    /\ subject' = Subject(booking_reference)
    /\ booking_status' = BookingStatus(booking_reference)
    /\ pc' = "publish"
    /\ UNCHANGED <<booking_sns_topic, event, customer_id, price,
                   booking_reference, payload, message_id, ret, exc, outcome,
                   entered, requests, errors, sent, last, invocations>>

(***************************************************************************)
(* Lines 60-69: sns.publish.  The topic accepts the message and assigns    *)
(* it an identifier, or the call raises.                                   *)
(***************************************************************************)
PublishRequest ==
    [TopicArn |-> booking_sns_topic,
     Message  |-> JsonDumps(payload),
     Subject  |-> subject,
     Status   |-> booking_status]

Accepted(req, m) ==
    [TopicArn |-> req.TopicArn, Message |-> req.Message,
     Subject |-> req.Subject, Status |-> req.Status, MessageId |-> m]

\* Mutant: an event equal to the previous one is not published again; the
\* previous delivery identifier is reused.
PublishOk_Dedup(m) ==
    /\ pc = "publish"
    /\ IF last # <<>> /\ last[1].event = event /\ last[1].sent # <<>>
       THEN /\ message_id' = last[1].sent[1].MessageId
            /\ UNCHANGED <<requests, sent>>
       ELSE /\ requests' = Append(requests, PublishRequest)
            /\ sent' = Append(sent, Accepted(PublishRequest, m))
            /\ message_id' = m
    /\ pc' = "published"
    /\ UNCHANGED <<booking_sns_topic, event, customer_id, price,
                   booking_reference, payload, subject, booking_status, ret,
                   exc, outcome, entered, errors, last, invocations>>

PublishOk(m) ==
    /\ pc = "publish"
    /\ requests' = Append(requests, PublishRequest)
    /\ sent' = Append(sent, Accepted(PublishRequest, m))
    /\ message_id' = m
    /\ pc' = "published"
    /\ UNCHANGED <<booking_sns_topic, event, customer_id, price,
                   booking_reference, payload, subject, booking_status, ret,
                   exc, outcome, entered, errors, last, invocations>>

\* Line 73.
NotifyResult(m) == [notificationId |-> m]

NotifyReturn ==
    /\ pc = "published"
    /\ ret' = NotifyResult(message_id)
    /\ pc' = "notified"
    /\ UNCHANGED <<booking_sns_topic, event, customer_id, price,
                   booking_reference, payload, subject, booking_status,
                   message_id, exc, outcome, entered, requests, errors, sent,
                   last, invocations>>

\* Line 127.
\* Mutant: the handler returns notify_booking's whole result object.
HandlerResult_WholeObject(r) ==
    Returned("dict", "{'notificationId': '" \o r.notificationId \o "'}")

HandlerResult(r) == Returned("str", r.notificationId)

HandlerReturn ==
    /\ pc = "notified"
    /\ outcome' = HandlerResult(ret)
    /\ pc' = "done"
    /\ UNCHANGED <<booking_sns_topic, event, locals, entered, requests,
                   errors, sent, last, invocations>>

(***************************************************************************)
(* The publish call raises botocore's ClientError with the provider's      *)
(* message s; line 74 catches it.                                          *)
(***************************************************************************)
\* Mutant: a failed publish call is tried once more.
PublishClientError_Retry(s) ==
    /\ pc = "publish"
    /\ requests' = Append(requests, PublishRequest)
    /\ errors' = Append(errors, Exception("ClientError", s))
    /\ exc' = Exception("ClientError", s)
    /\ pc' = IF requests = <<>> THEN "publish" ELSE "client_error"
    /\ UNCHANGED <<booking_sns_topic, event, customer_id, price,
                   booking_reference, payload, subject, booking_status,
                   message_id, ret, outcome, entered, sent, last,
                   invocations>>

PublishClientError(s) ==
    /\ pc = "publish"
    /\ requests' = Append(requests, PublishRequest)
    /\ errors' = Append(errors, Exception("ClientError", s))
    /\ exc' = Exception("ClientError", s)
    /\ pc' = "client_error"
    /\ UNCHANGED <<booking_sns_topic, event, customer_id, price,
                   booking_reference, payload, subject, booking_status,
                   message_id, ret, outcome, entered, sent, last,
                   invocations>>

\* Line 75: BookingNotificationException(e.response["Error"]["Message"]).
\* Mutant: the exception carries str(e) of the ClientError, not its message.
NotificationError_StrOfError(e) ==
    Exception("BookingNotificationException",
              "An error occurred (NotFound) when calling the Publish operation: "
                  \o e.message)

NotificationError(e) == Exception("BookingNotificationException", e.message)

NotifyRaise ==
    /\ pc = "client_error"
    /\ exc' = NotificationError(exc)
    /\ pc' = "notification_error"
    /\ UNCHANGED <<booking_sns_topic, event, customer_id, price,
                   booking_reference, payload, subject, booking_status,
                   message_id, ret, outcome, entered, requests, errors, sent,
                   last, invocations>>

\* Lines 123-124: raise BookingNotificationException(e), whose str() is str(e).
Reraised(e) == Raised("BookingNotificationException", e.message)

HandlerReraise ==
    /\ pc = "notification_error"
    /\ outcome' = Reraised(exc)
    /\ pc' = "done"
    /\ UNCHANGED <<booking_sns_topic, event, locals, entered, requests,
                   errors, sent, last, invocations>>

(***************************************************************************)
(* The publish call raises an exception that is not a ClientError (the     *)
(* client could not reach the service, or rejected its parameters).        *)
(* Neither except clause (lines 74, 123) matches it.                       *)
(***************************************************************************)
PublishOtherError ==
    /\ pc = "publish"
    /\ requests' = Append(requests, PublishRequest)
    /\ errors' = Append(errors, Exception("BotoCoreError", ""))
    /\ outcome' = Raised("BotoCoreError", "")
    /\ pc' = "done"
    /\ UNCHANGED <<booking_sns_topic, event, locals, entered, sent, last,
                   invocations>>

(***************************************************************************)
(* The invocation is over; the container keeps only its module globals.    *)
(***************************************************************************)
Record ==
    [event |-> event, outcome |-> outcome, requests |-> requests,
     sent |-> sent]

Complete ==
    /\ pc = "done"
    /\ last' = <<Record>>
    /\ pc' = "idle"
    /\ event' = EmptyDict
    /\ customer_id' = Unbound
    /\ price' = Unbound
    /\ booking_reference' = Unbound
    /\ payload' = NoPayload
    /\ subject' = ""
    /\ booking_status' = ""
    /\ message_id' = ""
    /\ ret' = NoResult
    /\ exc' = NoException
    /\ outcome' = NoOutcome
    /\ entered' = FALSE
    /\ requests' = <<>>
    /\ errors' = <<>>
    /\ sent' = <<>>
    /\ UNCHANGED <<booking_sns_topic, invocations>>

Next ==
    \/ \E e \in Events : Invoke(e)
    \/ Extract
    \/ Validate
    \/ Format
    \/ \E m \in MessageIds : PublishOk(m)
    \/ NotifyReturn
    \/ HandlerReturn
    \/ \E s \in ErrorMessages : PublishClientError(s)
    \/ NotifyRaise
    \/ HandlerReraise
    \/ PublishOtherError
    \/ Complete

Spec == Init /\ [][Next]_vars

(***************************************************************************)
(* Properties.                                                             *)
(***************************************************************************)
Done == pc = "done"

\* The event's fields as the caller gave them.
CustomerFalsy ==
    \/ "customerId" \notin DOMAIN event
    \/ event["customerId"] \in {PyNone, PyBool(FALSE), PyStr("")}

HasPayment == "payment" \in DOMAIN event

PriceFalsy ==
    \/ ~HasPayment
    \/ "price" \notin DOMAIN event["payment"].d
    \/ event["payment"].d["price"] \in {PyNone, PyBool(FALSE), PyStr("")}

ReferenceFalsy ==
    \/ "bookingReference" \notin DOMAIN event
    \/ event["bookingReference"] \in {PyNone, PyBool(FALSE), PyStr("")}

PublishSucceeded == sent # <<>>

ProviderError == errors # <<>> /\ errors[1].type = "ClientError"

\* C1: when the event passes validation and the publish call succeeds with
\* delivery identifier m, notify_booking returns {notificationId: m} and
\* lambda_handler returns the bare string m.
C1_ReturnsDeliveryId ==
    /\ (pc \in {"notified", "done"} /\ PublishSucceeded) =>
           ret = [notificationId |-> sent[Len(sent)].MessageId]
    /\ (Done /\ PublishSucceeded) =>
           outcome = [kind |-> "return", type |-> "str",
                      value |-> sent[Len(sent)].MessageId]

C1_Witness ==
    /\ Done
    /\ sent # <<>>
    /\ sent[1].MessageId = "abc-123"
    /\ outcome = [kind |-> "return", type |-> "str", value |-> "abc-123"]

\* C2: when the publish call fails with a provider error carrying message
\* s, notify_booking raises BookingNotificationException with message s, and
\* lambda_handler ends by raising an error of that kind with that message:
\* nothing is returned and no further call is made.
C2_NotificationError ==
    /\ (pc = "notification_error") =>
           /\ ProviderError
           /\ exc = [type |-> "BookingNotificationException",
                     message |-> errors[1].message]
    /\ (Done /\ ProviderError) =>
           /\ outcome = [kind |-> "raise",
                         type |-> "BookingNotificationException",
                         value |-> errors[1].message]
           /\ Len(requests) = 1
           /\ sent = <<>>

C2_Witness ==
    /\ Done
    /\ ProviderError
    /\ errors[1].message = "Topic not found"
    /\ outcome = [kind |-> "raise", type |-> "BookingNotificationException",
                  value |-> "Topic not found"]

\* C3: for an event with a payment field, the handler raises ValueError
\* exactly when customerId and price are both false-like; otherwise
\* notify_booking is called with the payload {customerId, price} as
\* extracted, False standing for a missing one.
C3_ValidationExactlyBoth ==
    (HasPayment /\ pc \notin {"idle", "extract", "validate"}) =>
        /\ (outcome.type = "ValueError") <=> (CustomerFalsy /\ PriceFalsy)
        /\ (CustomerFalsy /\ PriceFalsy) => (Done /\ outcome.kind = "raise")
        /\ ~(CustomerFalsy /\ PriceFalsy) =>
               /\ entered
               /\ payload =
                      [customerId |->
                           IF "customerId" \in DOMAIN event
                           THEN event["customerId"] ELSE PyBool(FALSE),
                       price |->
                           IF "price" \in DOMAIN event["payment"].d
                           THEN event["payment"].d["price"]
                           ELSE PyBool(FALSE)]

C3_Witness ==
    /\ HasPayment
    /\ pc = "publish"
    /\ CustomerFalsy
    /\ "customerId" \notin DOMAIN event
    /\ ~PriceFalsy
    /\ payload = [customerId |-> PyBool(FALSE), price |-> PyStr("100")]

\* C4: an invocation that ends with ValueError has made no publish call
\* and has not entered notify_booking.
C4_InvalidInputNoSideEffect ==
    (outcome.type = "ValueError") =>
        /\ requests = <<>>
        /\ sent = <<>>
        /\ errors = <<>>
        /\ ~entered

C4_Witness ==
    /\ Done
    /\ outcome.type = "ValueError"
    /\ requests = <<>>
    /\ last # <<>>
    /\ last[1].sent # <<>>

\* C5: with a truthy bookingReference, every publish call carries the
\* subject "Booking confirmation for <reference>" and the status
\* "confirmed".
C5_ConfirmedSubject ==
    ~ReferenceFalsy =>
        \A i \in DOMAIN requests :
            /\ requests[i].Subject =
                   "Booking confirmation for " \o event["bookingReference"].s
            /\ requests[i].Status = "confirmed"

C5_Witness ==
    /\ requests # <<>>
    /\ "bookingReference" \in DOMAIN event
    /\ event["bookingReference"] = PyStr("BK-9")
    /\ requests[1].Subject = "Booking confirmation for BK-9"
    /\ requests[1].Status = "confirmed"

\* C6 as claimed: with a falsy bookingReference (absent, None, False or the
\* empty string), every publish call carries the subject "Unable to process
\* booking for " with the reference rendered as empty, and the status
\* "cancelled".
C6_AsClaimed ==
    ReferenceFalsy =>
        \A i \in DOMAIN requests :
            /\ requests[i].Subject = "Unable to process booking for "
            /\ requests[i].Status = "cancelled"

\* How the code renders a falsy reference in the subject.
FalsyReferenceText ==
    IF "bookingReference" \notin DOMAIN event THEN "False"
    ELSE CASE event["bookingReference"] = PyNone -> "None"
           [] event["bookingReference"] = PyBool(FALSE) -> "False"
           [] event["bookingReference"] = PyStr("") -> ""

\* C6 (amended): with a falsy bookingReference, every publish call carries
\* the status "cancelled" and the subject "Unable to process booking for "
\* followed by the text of the reference: "False" when it is absent or
\* False, "None" when it is None, nothing when it is the empty string.
C6_CancelledSubject ==
    ReferenceFalsy =>
        \A i \in DOMAIN requests :
            /\ requests[i].Subject =
                   "Unable to process booking for " \o FalsyReferenceText
            /\ requests[i].Status = "cancelled"

C6_Witness ==
    /\ requests # <<>>
    /\ "bookingReference" \notin DOMAIN event
    /\ requests[1].Subject = "Unable to process booking for False"
    /\ requests[1].Status = "cancelled"

\* C7 as claimed: when the payment field or its price key is missing, price
\* counts as false-like: the handler raises ValueError if customerId is
\* false-like too, and otherwise goes on to notify_booking; extraction
\* raises nothing else.
C7_AsClaimed ==
    (PriceFalsy /\ pc \notin {"idle", "extract", "validate"}) =>
        IF CustomerFalsy
        THEN outcome.type = "ValueError"
        ELSE entered /\ outcome.type # "AttributeError"

\* C8: an invocation makes at most one publish call, and after a failed
\* call it only ends, with the error, without publishing again.
C8_NoRetry ==
    /\ Len(requests) <= 1
    /\ Len(errors) <= 1
    /\ errors # <<>> =>
           /\ pc \in {"client_error", "notification_error", "done"}
           /\ sent = <<>>
    /\ (Done /\ errors # <<>>) => outcome.kind = "raise"

C8_Witness ==
    /\ Done
    /\ errors # <<>>
    /\ Len(requests) = 1
    /\ outcome.kind = "raise"

SameEventAgain == last # <<>> /\ last[1].event = event

\* C9: two invocations with the same event make the same publish call, each
\* its own, and each returns the identifier given to its own call; when the
\* identifiers differ, so do the two return values.
C9_NoDeduplication ==
    (Done /\ SameEventAgain) =>
        /\ requests = last[1].requests
        /\ entered => Len(requests) = 1
        /\ (outcome.kind = "return") =>
               /\ Len(sent) = 1
               /\ outcome.value = sent[1].MessageId
        /\ (last[1].outcome.kind = "return") =>
               /\ Len(last[1].sent) = 1
               /\ last[1].outcome.value = last[1].sent[1].MessageId
        /\ (outcome.kind = "return" /\ last[1].outcome.kind = "return"
                /\ sent[1].MessageId # last[1].sent[1].MessageId) =>
               outcome.value # last[1].outcome.value

C9_Witness ==
    /\ Done
    /\ SameEventAgain
    /\ outcome.kind = "return"
    /\ last[1].outcome.kind = "return"
    /\ Len(requests) = 1
    /\ requests = last[1].requests
    /\ outcome.value # last[1].outcome.value

\* C10 as claimed: every invocation ends by returning the delivery
\* identifier, raising ValueError or raising BookingNotificationException;
\* no other error reaches the caller.
C10_AsClaimed ==
    Done =>
        \/ outcome.kind = "return" /\ outcome.type = "str"
        \/ outcome.kind = "raise" /\ outcome.type = "ValueError"
        \/ outcome.kind = "raise"
               /\ outcome.type = "BookingNotificationException"

=============================================================================
